---- MODULE Spec2Model ----
(***************************************************************************)
(* scripts/snapgene_features_parse.py as a state machine.                  *)
(*                                                                         *)
(* One run of the script: read_features() walks the snapgene directory,    *)
(* filters the listing, decodes every remaining file with dgparse and      *)
(* folds the features into a dict; write_features() writes the dict to     *)
(* features.tsv.  The file system, the decoder's results and I/O errors    *)
(* are the environment: they are drawn nondeterministically.               *)
(*                                                                         *)
(* Text is modelled as sequences of numbers: a feature name is a sequence  *)
(* of Unicode code points (dgparse returns unicode objects), a dict key,   *)
(* a base sequence and the output file are sequences of bytes.  A path is  *)
(* a sequence of path tokens, "./.DS_Store" being <<".", "/", ".DS",       *)
(* "_Store">>.                                                             *)
(***************************************************************************)
EXTENDS Integers, Sequences, FiniteSets

(* ---------------------------------------------------------------- bounds *)

\* The largest number of features the decoder returns for one file.
MaxRecords == 2

(* ------------------------------------------------------------- alphabets *)

TAB == 9
NL == 10

\* str.strip() without arguments removes the bytes for which isspace() holds.
Whitespace == {9, 10, 11, 12, 13, 32}

IsSpace(b) == b \in Whitespace

\* unicode.encode("utf-8") of one code point below U+0800.
EncodeChar(cp) ==
    IF cp < 128 THEN <<cp>> ELSE <<192 + (cp \div 64), 128 + (cp % 64)>>

RECURSIVE Encode(_)
\* dna_feature["name"].encode("utf-8")
Encode(s) == IF s = <<>> THEN <<>> ELSE EncodeChar(Head(s)) \o Encode(Tail(s))

RECURSIVE LStrip(_)
LStrip(s) == IF s # <<>> /\ IsSpace(Head(s)) THEN LStrip(Tail(s)) ELSE s

RECURSIVE RStrip(_)
RStrip(s) ==
    IF s # <<>> /\ IsSpace(s[Len(s)]) THEN RStrip(SubSeq(s, 1, Len(s) - 1)) ELSE s

\* Faulty variant of Strip: lstrip() in place of strip().
StripLeftOnly(s) == LStrip(s)

\* str.strip()
Strip(s) == RStrip(LStrip(s))

\* name = dna_feature["name"].encode("utf-8").strip()
KeyOf(name) == Strip(Encode(name))

(* ------------------------------------------------------------ file system *)

RootDir == <<".">>
SubDir == <<".", "/", "sub">>

\* os.path.join(d, f)
Join(d, f) == d \o <<"/">> \o f

OutputPath == Join(RootDir, <<"features", ".tsv">>)

\* The files that may exist under the snapgene directory.
Candidates ==
    { Join(RootDir, <<"a.dna">>),
      Join(RootDir, <<".DS", "_Store">>),
      OutputPath,
      Join(SubDir, <<"b.dna">>),
      Join(SubDir, <<".DS", "_Store">>) }

\* f.startswith(prefix)
StartsWith(f, prefix) ==
    Len(f) >= Len(prefix) /\ SubSeq(f, 1, Len(prefix)) = prefix

\* Faulty variant of Keep: the listing is not filtered.
KeepAll(f) == TRUE

\* not (f.startswith("./.DS") or f.startswith("./features"))
Keep(f) ==
    ~ (StartsWith(f, <<".", "/", ".DS">>) \/ StartsWith(f, <<".", "/", "features">>))

InDir(f, d) == Len(f) = Len(d) + 2 /\ StartsWith(f, d \o <<"/">>)

Injective(s) == \A i, j \in DOMAIN s : s[i] = s[j] => i = j

\* The lists os.walk(".") can produce for a tree: top-down, the files of the
\* root before the files of the sub-directory, each directory in any order.
WalkOrders(files) ==
    LET n == Cardinality(files)
    IN  { s \in [1..n -> files] :
             /\ Injective(s)
             /\ \A i, j \in 1..n :
                   (InDir(s[i], SubDir) /\ InDir(s[j], RootDir)) => j < i }

(* ------------------------------------------------------ decoder's results *)

\* Feature names the decoder may return (code points): " ", "a", "\ta\n",
\* and "é\ta" (non-ASCII, with an interior tab).
RawNames == { <<32>>, <<97>>, <<9, 97, 10>>, <<233, 9, 97>> }

\* Base sequences the decoder may return: "", "A", "AC", "CA".
Bases == { <<>>, <<65>>, <<65, 67>>, <<67, 65>> }

\* A feature is well formed (kind "ok") or raises when line 36-40 reads it
\* (kind "bad": a missing key, a value that is not a string).
NoFeature == [kind |-> "none", name |-> <<>>, bases |-> <<>>]
BadFeature == [kind |-> "bad", name |-> <<>>, bases |-> <<>>]
GoodFeatures == { [kind |-> "ok", name |-> n, bases |-> b] : n \in RawNames, b \in Bases }
Features == GoodFeatures \cup {BadFeature}

\* The trees a run may start from.  features.tsv is in the tree exactly when
\* an earlier run left it; the root's .DS_Store is taken to come and go with it.
Trees ==
    { t \in SUBSET Candidates :
         (OutputPath \in t) <=> (Join(RootDir, <<".DS", "_Store">>) \in t) }

NoFile == [exists |-> FALSE, bytes |-> <<>>]
\* A features.tsv left by an earlier run: "x\tAC\n".
OldFile == [exists |-> TRUE, bytes |-> <<120, 9, 65, 67, 10>>]

(* ------------------------------------------------------------------ state *)

VARIABLES
    pc,          \* position of the script
    tree,        \* the files under the snapgene directory
    outFile,     \* features.tsv on disk
    feat_files,  \* read_features: the filtered listing
    idx,         \* number of files the for loop has taken; file = feat_files[idx]
    failures,    \* read_features: failures
    features,    \* read_features: features (a function from keys to bases)
    output,      \* number of features of the current file not yet iterated
    feature,     \* the feature the inner loop of the current file is at or was last at
    exc,         \* the exception last raised while the current file was processed
    handles,     \* input files whose handle is open
    outHandle,   \* whether the handle of features.tsv is open
    todo,        \* keys features.iteritems() has not yet yielded
    stdout,      \* what print has written
    \* history variables
    parsed,      \* the files handed to dgparse.snapgene.parse, in order
    raised,      \* the files in whose try block an exception was raised, in order
    fresh,       \* keys assigned at line 41 by the current file
    clobbered,   \* keys of fresh whose entry held another sequence of an earlier file
    rawOf        \* for each key of features, the raw name of the feature stored

vars == <<pc, tree, outFile, feat_files, idx, failures, features, output, feature,
          exc, handles, outHandle, todo, stdout, parsed, raised, fresh, clobbered, rawOf>>

EmptyMap == [k \in {} |-> <<>>]

Put(m, k, v) == [x \in DOMAIN m \cup {k} |-> IF x = k THEN v ELSE m[x]]

file == feat_files[idx]

Init ==
    /\ pc = "start"
    /\ outFile \in {NoFile, OldFile}
    /\ tree \in { t \in Trees : (OutputPath \in t) <=> outFile.exists }
    /\ feat_files = <<>>
    /\ idx = 0
    /\ failures = <<>>
    /\ features = EmptyMap
    /\ output = 0
    /\ feature = NoFeature
    /\ exc = "none"
    /\ handles = {}
    /\ outHandle = FALSE
    /\ todo = {}
    /\ stdout = <<>>
    /\ parsed = <<>>
    /\ raised = <<>>
    /\ fresh = {}
    /\ clobbered = {}
    /\ rawOf = EmptyMap

(* --------------------------------------------------------- read_features *)

\* Faulty variant of Walk: features.tsv is opened for writing before the
\* tree is read.
WalkTruncating ==
    /\ pc = "start"
    /\ \E listing \in WalkOrders(tree \cup {OutputPath}) :
          feat_files' = SelectSeq(listing, Keep)
    /\ outFile' = [exists |-> TRUE, bytes |-> <<>>]
    /\ tree' = tree \cup {OutputPath}
    /\ failures' = <<>>
    /\ features' = EmptyMap
    /\ pc' = "for"
    /\ UNCHANGED <<idx, output, feature, exc, handles, outHandle,
                   todo, stdout, parsed, raised, fresh, clobbered, rawOf>>

\* Lines 19-29: list the tree, filter the listing, create failures and features.
Walk ==
    /\ pc = "start"
    /\ \E listing \in WalkOrders(tree) :
          feat_files' = SelectSeq(listing, Keep)
    /\ failures' = <<>>
    /\ features' = EmptyMap
    /\ pc' = "for"
    /\ UNCHANGED <<tree, outFile, idx, output, feature, exc, handles, outHandle,
                   todo, stdout, parsed, raised, fresh, clobbered, rawOf>>

\* Lines 30, 32: the loop takes the next file and opens it.  What the
\* previous file left in feature and exc is not read again and is dropped.
OpenFile ==
    /\ pc = "for"
    /\ idx < Len(feat_files)
    /\ idx' = idx + 1
    /\ handles' = handles \cup {feat_files[idx + 1]}
    /\ feature' = NoFeature
    /\ exc' = "none"
    /\ fresh' = {}
    /\ clobbered' = {}
    /\ pc' = "parse"
    /\ UNCHANGED <<tree, outFile, feat_files, failures, features, output,
                   outHandle, todo, stdout, parsed, raised, rawOf>>

\* Line 32: open() raises IOError; it is outside the try block and propagates.
OpenFileIOError ==
    /\ pc = "for"
    /\ idx < Len(feat_files)
    /\ idx' = idx + 1
    /\ exc' = "IOError"
    /\ pc' = "aborted"
    /\ UNCHANGED <<tree, outFile, feat_files, failures, features, output, feature,
                   handles, outHandle, todo, stdout, parsed, raised, fresh,
                   clobbered, rawOf>>

\* Line 34: the decoder returns a list of features.
ParseOk ==
    /\ pc = "parse"
    /\ parsed' = Append(parsed, file)
    /\ \E n \in 0..MaxRecords : output' = n
    /\ pc' = "iter"
    /\ UNCHANGED <<tree, outFile, feat_files, idx, failures, features, feature, exc,
                   handles, outHandle, todo, stdout, raised, fresh, clobbered, rawOf>>

\* Line 34: the decoder raises, because it cannot interpret the bytes or
\* because reading the handle fails; both are raised inside the try block.
ParseRaise ==
    /\ pc = "parse"
    /\ parsed' = Append(parsed, file)
    /\ \E e \in {"DecodeError", "IOError"} : exc' = e
    /\ raised' = Append(raised, file)
    /\ pc' = "except"
    /\ UNCHANGED <<tree, outFile, feat_files, idx, failures, features, output, feature,
                   handles, outHandle, todo, stdout, fresh, clobbered, rawOf>>

\* Line 35: the inner loop takes the next feature of the decoder's list.
NextFeature ==
    /\ pc = "iter"
    /\ output > 0
    /\ output' = output - 1
    /\ \E f \in Features : feature' = f
    /\ pc' = "body"
    /\ UNCHANGED <<tree, outFile, feat_files, idx, failures, features, exc, handles,
                   outHandle, todo, stdout, parsed, raised, fresh, clobbered, rawOf>>

\* Faulty variant of Store: len(seq) >= 1.
StoreGE1(name, seq) == Len(seq) >= 1

\* Line 40: if len(seq) > 1
Store(name, seq) == Len(seq) > 1

\* Faulty variant of Assign: features.setdefault(name, seq), first write wins.
AssignIfAbsent(m, name, seq) == IF name \in DOMAIN m THEN m ELSE Put(m, name, seq)

\* Line 41: features[name] = seq
Assign(m, name, seq) == Put(m, name, seq)

\* Lines 36-41 for a well-formed feature.
Body ==
    /\ pc = "body"
    /\ feature.kind = "ok"
    /\ LET name == KeyOf(feature.name)
           seq == feature.bases
       IN  IF Store(name, seq)
           THEN /\ features' = Assign(features, name, seq)
                /\ fresh' = fresh \cup {name}
                /\ clobbered' =
                      IF name \in DOMAIN features \ fresh /\ features[name] # seq
                      THEN clobbered \cup {name}
                      ELSE clobbered
                /\ rawOf' = Put(rawOf, name, feature.name)
           ELSE UNCHANGED <<features, fresh, clobbered, rawOf>>
    /\ pc' = "iter"
    /\ UNCHANGED <<tree, outFile, feat_files, idx, failures, output, feature, exc,
                   handles, outHandle, todo, stdout, parsed, raised>>

\* Lines 36-40 raise (KeyError, TypeError, AttributeError) inside the try block.
BodyRaise ==
    /\ pc = "body"
    /\ feature.kind = "bad"
    /\ exc' = "KeyError"
    /\ raised' = Append(raised, file)
    /\ pc' = "except"
    /\ UNCHANGED <<tree, outFile, feat_files, idx, failures, features, output, feature,
                   handles, outHandle, todo, stdout, parsed, fresh, clobbered, rawOf>>

\* Faulty variant of Release: the handle is never closed.
HandlesLeak(hs, f) == hs

\* The with statement's exit: the handle of the file is closed.
Release(hs, f) == hs \ {f}

\* Faulty variant of Record: failures.insert(0, file).
RecordPrepend(fs, f) == <<f>> \o fs

\* Line 44: failures.append(file)
Record(fs, f) == Append(fs, f)

\* Lines 42-45: the bare except appends the file and continues with the
\* next file; continue leaves the with block, which closes the handle.  The
\* features of the file not yet iterated are abandoned.
Except ==
    /\ pc = "except"
    /\ failures' = Record(failures, file)
    /\ handles' = Release(handles, file)
    /\ output' = 0
    /\ pc' = "for"
    /\ UNCHANGED <<tree, outFile, feat_files, idx, features, feature, exc, outHandle,
                   todo, stdout, parsed, raised, fresh, clobbered, rawOf>>

\* Line 35 exhausted: the try block and the with block end normally.
EndFile ==
    /\ pc = "iter"
    /\ output = 0
    /\ handles' = Release(handles, file)
    /\ pc' = "for"
    /\ UNCHANGED <<tree, outFile, feat_files, idx, failures, features, output, feature,
                   exc, outHandle, todo, stdout, parsed, raised, fresh, clobbered,
                   rawOf>>

\* Lines 46-47, 54: the loop is over; print(failures), return features.  The
\* locals of read_features other than the returned dict are gone.
PrintFailures ==
    /\ pc = "for"
    /\ idx = Len(feat_files)
    /\ stdout' = Append(stdout, failures)
    /\ feature' = NoFeature
    /\ exc' = "none"
    /\ fresh' = {}
    /\ clobbered' = {}
    /\ pc' = "open"
    /\ UNCHANGED <<tree, outFile, feat_files, idx, failures, features, output,
                   handles, outHandle, todo, parsed, raised, rawOf>>

(* -------------------------------------------------------- write_features *)

\* open("features.tsv", "w"): the file is created or truncated.
OpenTruncate(old) == [exists |-> TRUE, bytes |-> <<>>]

\* Lines 56-57: open the output and start iterating the dict.
OpenOutput ==
    /\ pc = "open"
    /\ outFile' = OpenTruncate(outFile)
    /\ tree' = tree \cup {OutputPath}
    /\ outHandle' = TRUE
    /\ todo' = DOMAIN features
    /\ pc' = "write"
    /\ UNCHANGED <<feat_files, idx, failures, features, output, feature, exc, handles,
                   stdout, parsed, raised, fresh, clobbered, rawOf>>

\* Line 56: open() raises IOError, which propagates.
OpenOutputIOError ==
    /\ pc = "open"
    /\ exc' = "IOError"
    /\ pc' = "aborted"
    /\ UNCHANGED <<tree, outFile, feat_files, idx, failures, features, output, feature,
                   handles, outHandle, todo, stdout, parsed, raised, fresh, clobbered, rawOf>>

\* Faulty variant of Line: the newline is left out.
LineNoNewline(name, seq) == name \o <<TAB>> \o seq

\* name + "\t" + seq + "\n"
Line(name, seq) == name \o <<TAB>> \o seq \o <<NL>>

\* Lines 57-58: iteritems() yields an entry, in an order the dict decides;
\* the line is written.
WriteLine ==
    /\ pc = "write"
    /\ \E name \in todo :
          /\ outFile' = [outFile EXCEPT !.bytes = @ \o Line(name, features[name])]
          /\ todo' = todo \ {name}
    /\ UNCHANGED <<pc, tree, feat_files, idx, failures, features, output, feature, exc,
                   handles, outHandle, stdout, parsed, raised, fresh, clobbered, rawOf>>

\* Line 58: write() raises IOError; the with block closes the handle and the
\* error propagates.
WriteIOError ==
    /\ pc = "write"
    /\ todo # {}
    /\ exc' = "IOError"
    /\ outHandle' = FALSE
    /\ pc' = "aborted"
    /\ UNCHANGED <<tree, outFile, feat_files, idx, failures, features, output, feature,
                   handles, todo, stdout, parsed, raised, fresh, clobbered, rawOf>>

\* Lines 57-61: the dict is exhausted, the with block closes the output.
CloseOutput ==
    /\ pc = "write"
    /\ todo = {}
    /\ outHandle' = FALSE
    /\ pc' = "done"
    /\ UNCHANGED <<tree, outFile, feat_files, idx, failures, features, output, feature,
                   exc, handles, todo, stdout, parsed, raised, fresh, clobbered, rawOf>>

Next ==
    \/ Walk
    \/ OpenFile
    \/ OpenFileIOError
    \/ ParseOk
    \/ ParseRaise
    \/ NextFeature
    \/ Body
    \/ BodyRaise
    \/ Except
    \/ EndFile
    \/ PrintFailures
    \/ OpenOutput
    \/ OpenOutputIOError
    \/ WriteLine
    \/ WriteIOError
    \/ CloseOutput

Spec == Init /\ [][Next]_vars

(* ------------------------------------------------------------- properties *)

Range(s) == { s[i] : i \in DOMAIN s }

\* The position of a listed file in the enumeration.
Position(f) == CHOOSE i \in DOMAIN feat_files : feat_files[i] = f

LoopEnded == pc = "for" /\ idx = Len(feat_files)

\* The file just processed ended in the except clause.
FileFailed == pc = "for" /\ idx > 0 /\ failures # <<>> /\ failures[Len(failures)] = file

\* C1 (as claimed): once a file that raised in its try block has been
\* processed, no record of that file is in the mapping: the file assigned no
\* key, so the mapping is the one from before the file.
C1_NoPartialSalvage == FileFailed => fresh = {}

\* C2: every file whose try block raised is appended to failures exactly once
\* and in enumeration order, files that did not raise are never appended, a
\* run ends outside the output phase only by an IOError that propagated, and
\* the output phase is reached only after every listed file was handed to the
\* decoder.
C2_FailuresPerFile ==
    /\ Injective(failures)
    /\ Range(failures) \subseteq Range(SubSeq(feat_files, 1, idx))
    /\ \A i, j \in DOMAIN failures :
          i < j => Position(failures[i]) < Position(failures[j])
    /\ (pc # "except") => failures = raised
    /\ (pc = "except") => (Len(raised) = Len(failures) + 1 /\ raised[Len(raised)] = file)
    /\ (pc = "aborted") => exc = "IOError"
    /\ (pc \in {"open", "write", "done"}) => (idx = Len(feat_files) /\ parsed = feat_files)

\* C2 witness: three files were processed, the first and the third failed,
\* the second decoded, and the run completed.
C2_Witness ==
    /\ pc = "done"
    /\ Len(feat_files) = 3
    /\ failures = <<feat_files[1], feat_files[3]>>

ShortFeature == feature.kind = "ok" /\ Len(feature.bases) <= 1

\* C3: no entry of the mapping ever has a sequence of length 0 or 1, and the
\* loop body leaves the mapping as it is for a feature with such a sequence.
C3_NoShortSequence ==
    /\ [](\A k \in DOMAIN features : Len(features[k]) > 1)
    /\ [][(pc = "body" /\ ShortFeature) => features' = features]_vars

\* C3 witness: the body has processed a feature of sequence length <= 1 whose
\* name is a key of the mapping, and the entry is still the longer sequence.
C3_Witness ==
    /\ pc = "iter"
    /\ ShortFeature
    /\ KeyOf(feature.name) \in DOMAIN features

\* C4 (as claimed): when the loop has ended and the last file defines, with
\* a non-empty sequence, a name without surrounding whitespace that an
\* earlier file defined too (the entry under the name was stored by an
\* earlier file from the same raw name), the entry holds the sequence of the
\* last file.
C4_LastFileWins ==
    (LoopEnded /\ feature.kind = "ok" /\ feature.bases # <<>>) =>
        LET k == KeyOf(feature.name)
        IN  (/\ k = Encode(feature.name)
             /\ k \in DOMAIN features
             /\ k \notin fresh
             /\ rawOf[k] = feature.name)
                => features[k] = feature.bases

LongFeature == feature.kind = "ok" /\ Len(feature.bases) > 1

\* C4 (amended): a feature whose sequence is longer than 1 replaces whatever
\* is stored under its stripped name and touches no other entry, nothing else
\* changes an entry, and after a file the entry under the name of its last
\* feature, if that feature's sequence is longer than 1, is that sequence.
C4_LastRetainedWins ==
    /\ [][(pc = "body" /\ LongFeature) =>
            LET k == KeyOf(feature.name)
            IN  /\ DOMAIN features' = DOMAIN features \cup {k}
                /\ features'[k] = feature.bases
                /\ \A j \in DOMAIN features \ {k} : features'[j] = features[j]]_vars
    /\ [][(features' # features) => (pc = "body" /\ LongFeature)]_vars
    /\ []((pc = "for" /\ LongFeature) => features[KeyOf(feature.name)] = feature.bases)

\* C4 witness: the loop has ended; the last file replaced an entry that an
\* earlier file had stored with another sequence.
C4_Witness ==
    /\ LoopEnded
    /\ LongFeature
    /\ KeyOf(feature.name) \in clobbered
    /\ features[KeyOf(feature.name)] = feature.bases

\* C5 (as claimed): once an IOError has been raised and dealt with, the run
\* is aborted, and the file being processed is not in the failure list.
C5_IOErrorPropagates ==
    (exc = "IOError" /\ pc # "except") =>
        (pc = "aborted" /\ (idx > 0 => file \notin Range(failures)))

NoTabNewline(s) == \A i \in DOMAIN s : s[i] \notin {TAB, NL}

Clean(m) == \A k \in DOMAIN m : NoTabNewline(k) /\ NoTabNewline(m[k])

RECURSIVE SplitOn(_, _)
\* s.split(sep): the fields of s between the separators.
SplitOn(s, sep) ==
    IF \A i \in DOMAIN s : s[i] # sep
    THEN <<s>>
    ELSE LET p == CHOOSE i \in DOMAIN s : s[i] = sep /\ \A j \in 1..(i - 1) : s[j] # sep
         IN  <<SubSeq(s, 1, p - 1)>> \o SplitOn(SubSeq(s, p + 1, Len(s)), sep)

\* C6: when the run is done and no name or sequence of the mapping holds a
\* tab or a newline, the output file exists, ends with a newline unless it
\* is empty, has as many lines as the mapping has entries, every line has
\* exactly two tab-separated fields, and the pairs read back are the pairs
\* of the mapping; an empty mapping gives a file of zero bytes.
C6_RoundTrip ==
    (pc = "done" /\ Clean(features)) =>
        LET parts == SplitOn(outFile.bytes, NL)
            n == Len(parts) - 1
        IN  /\ outFile.exists
            /\ parts[Len(parts)] = <<>>
            /\ n = Cardinality(DOMAIN features)
            /\ \A i \in 1..n : Len(SplitOn(parts[i], TAB)) = 2
            /\ { SplitOn(parts[i], TAB) : i \in 1..n }
                  = { <<k, features[k]>> : k \in DOMAIN features }
            /\ (features = EmptyMap => outFile.bytes = <<>>)

\* C6 witness: a mapping of two entries without tab or newline was written.
C6_Witness ==
    /\ pc = "done"
    /\ Clean(features)
    /\ Cardinality(DOMAIN features) = 2

\* A path under "./" whose next token is a reserved prefix.
Reserved(f) == Len(f) >= 3 /\ f[3] \in {".DS", "features"}

\* C7: only files of the tree without a reserved prefix are opened, handed to
\* the decoder or recorded as failures, none is handed to the decoder twice,
\* and once the loop is left for the output phase the files handed to the
\* decoder are exactly the files of the tree without a reserved prefix.
C7_DecodedSet ==
    /\ \A f \in Range(parsed) \cup handles \cup Range(failures) :
          f \in tree /\ ~ Reserved(f)
    /\ Injective(parsed)
    /\ (pc \in {"open", "write", "done"}) =>
          Range(parsed) = { f \in tree : ~ Reserved(f) }

\* C7 witness: a run over a tree with an old features.tsv, the root's
\* .DS_Store and three other files is done.
C7_Witness ==
    /\ pc = "done"
    /\ Cardinality(tree) = 5
    /\ Len(parsed) = 3

\* C8: at most one input handle is open; it is the handle of the current
\* file, open from open() to the end of the with block; none is open between
\* files, while the output is open, or when the run has ended.
C8_HandlesScoped ==
    /\ Cardinality(handles) <= 1
    /\ (pc \in {"parse", "iter", "body", "except"}) => handles = {file}
    /\ (pc \in {"start", "for", "open", "write", "done", "aborted"}) => handles = {}
    /\ outHandle => handles = {}

\* C8 witness: the first file failed, the second decoded, and the third is
\* open with no other handle.
C8_Witness ==
    /\ pc = "parse"
    /\ idx = 3
    /\ failures = <<feat_files[1]>>
    /\ handles = {feat_files[3]}

\* C9: the mapping and the failure list are empty until the loop body runs
\* and change only in the loop, before the failure list is printed; the list
\* is printed at most once, only when every file has been processed, and it
\* is the final list; features.tsv and the tree change only after that, in
\* the output phase; a completed run has printed once.
C9_LinearPhases ==
    /\ []((pc = "start" \/ (pc = "for" /\ idx = 0)) =>
             (features = EmptyMap /\ failures = <<>>))
    /\ [][(features' # features \/ failures' # failures) =>
             (pc \in {"body", "except"} /\ stdout = <<>>)]_vars
    /\ [](Len(stdout) <= 1)
    /\ []((stdout # <<>>) =>
             /\ idx = Len(feat_files)
             /\ stdout[1] = failures
             /\ pc \in {"open", "write", "done", "aborted"})
    /\ [][(outFile' # outFile \/ tree' # tree) =>
             (stdout # <<>> /\ pc \in {"open", "write"})]_vars
    /\ []((pc = "done") => Len(stdout) = 1)

\* C9 witness: the run was aborted in the loop with entries in the mapping;
\* nothing was printed and the old features.tsv is as it was.
C9_Witness ==
    /\ pc = "aborted"
    /\ stdout = <<>>
    /\ features # EmptyMap
    /\ outFile = OldFile

\* key is enc without a leading and a trailing run of whitespace bytes, and
\* has no whitespace byte at either end.
TrimOf(enc, key) ==
    /\ \E i, j \in 0..Len(enc) :
          /\ i + j <= Len(enc)
          /\ key = SubSeq(enc, i + 1, Len(enc) - j)
          /\ \A x \in 1..i : IsSpace(enc[x])
          /\ \A x \in (Len(enc) - j + 1)..Len(enc) : IsSpace(enc[x])
    /\ key = <<>> \/ (~ IsSpace(key[1]) /\ ~ IsSpace(key[Len(key)]))

\* C10: no key of the mapping begins or ends with whitespace; a feature
\* whose sequence is longer than 1 is stored under its encoded name with the
\* surrounding whitespace removed, so names that differ only in surrounding
\* whitespace share one entry, and a name of whitespace only is stored under
\* the empty key.
C10_StrippedKeys ==
    /\ [](\A k \in DOMAIN features :
             k = <<>> \/ (~ IsSpace(k[1]) /\ ~ IsSpace(k[Len(k)])))
    /\ [][(pc = "body" /\ LongFeature) =>
            \E k \in DOMAIN features' :
               /\ TrimOf(Encode(feature.name), k)
               /\ features'[k] = feature.bases
               /\ DOMAIN features' = DOMAIN features \cup {k}
               /\ ((\A x \in Range(feature.name) : IsSpace(x)) => k = <<>>)]_vars

\* C10 witness: " " was stored under the empty key, and "\ta\n" replaced
\* under the key "a" the sequence an earlier file had stored there.
C10_Witness ==
    /\ <<>> \in DOMAIN features
    /\ rawOf[<<>>] = <<32>>
    /\ <<97>> \in clobbered
    /\ rawOf[<<97>>] = <<9, 97, 10>>

====
